---------------------------- MODULE Spec2Model ----------------------------
(***************************************************************************)
(* A model of the lighting_controller animation core:                      *)
(*   src/src/utility.rs        Progression, rainbows, fade, RNG            *)
(*   src/src/colors.rs         color_lerp, lerp_with                       *)
(*   src/src/animations/mod.rs Animation (update / set_offset / trigger)   *)
(*                                                                         *)
(* A Rust panic (index out of range, division by zero, arithmetic          *)
(* overflow in a build with overflow checks) is modelled as a result       *)
(* record whose field panic is TRUE; the action that meets it sets the     *)
(* fault flag of its component and the component stops.                    *)
(***************************************************************************)
EXTENDS Integers, Sequences, FiniteSets, TLC

(***************************** bounds **************************************)
\* largest Progression total explored
MaxTotal == 4
\* set_current(v) is called with v in 0..MaxValue (larger than MaxTotal)
MaxValue == 6
\* an interpolation range whose product with a full channel difference (255)
\* does not fit i32
LargeRange == 8421505
\* largest total of the frames Progression of a fade
MaxFrames == 3
\* number of LEDs of the Animation (its const generic N_LED)
N_LED == 2
\* most trigger instances the environment keeps active at once
MaxActive == 1
\* most draws a run makes between two (re)seedings
MaxDraws == 2
\* draws each of the two racing callers makes
DrawsPerCaller == 2
\* ReversibleRainbows are indexed with 0..MaxIndex and with a few indexes
\* from the top of the usize range
MaxIndex == 3
\* a total of frames whose product with MAX_OFFSET does not fit a 32-bit usize
LargeTotal == 65539

VARIABLES
    \* ---- Progression under test (utility.rs:206-210)
    prog,       \* [current, total, is_forward]
    prev,       \* the Progression before the last operation
    last_op,    \* name of the last operation called on prog
    arg,        \* the argument of the last operation, 0 when it takes none
    ret,        \* what the last operation returned: "true", "false", "unit"
    fault,      \* TRUE once an operation panicked
    streak,     \* the current run of consecutive calls of one stepping op
    \* ---- the build
    overflow_checks,  \* TRUE: arithmetic overflow panics; FALSE: it wraps
    \* ---- one call of color_lerp (colors.rs:9-27)
    lerp_args,  \* [factor, in_min, in_max, start_color, end_color]
    lerp_out,   \* [called, panic, val]
    \* ---- a fade: TimedRainbows' fade_rainbow and frames (utility.rs:132-145)
    fade_rainbow,  \* StatefulRainbow [backer: [backer, rainbow_dir], position]
    frames,        \* Progression
    fade_out,      \* the last calculate_fade_color: [called, panic, val, lerp]
    \* ---- an Animation (animations/mod.rs:45-51)
    anim,       \* [translation_array, segment, fg_state, bg_state, triggers]
    anim_op,    \* the last call on the Animation, with its arguments
    frame,      \* what each layer wrote during the last update()
    \* ---- the generator, in two separate runs of the program
    runs,       \* run -> [RNG, seeded, seed, outs]
    \* ---- the generator, shared by two concurrent callers (utility.rs:11)
    RNG,        \* the stores to the static RNG, in modification order
    callers,    \* caller -> [pc, rng, seen, n, outs]
    race_seed,  \* RNG when the race starts
    \* ---- one ReversibleRainbow and the last index into it (utility.rs:66-90)
    rev_rainbow,   \* [backer, rainbow_dir]
    index_out,     \* [called, index, panic, val]
    \* ---- the last call of shift_offset (utility.rs:52-64), on frames
    shift_out,     \* [called, start, frames, direction, panic, val]
    \* ---- TimedRainbows: fade_rainbow, frames and (utility.rs:132-136)
    incremental_rainbow,  \* StatefulRainbow
    timed_op       \* the last call on the composite or on one of its parts

progVars == <<prog, prev, last_op, arg, ret, fault, streak>>
lerpVars == <<lerp_args, lerp_out>>
fadeVars == <<fade_rainbow, frames, fade_out>>
animVars == <<anim, anim_op, frame>>
rngVars == <<runs>>
raceVars == <<RNG, callers, race_seed>>
indexVars == <<rev_rainbow, index_out>>
shiftVars == <<shift_out>>
timedVars == <<incremental_rainbow, timed_op>>
vars == <<progVars, overflow_checks, lerpVars, fadeVars, animVars, rngVars, raceVars,
          indexVars, shiftVars, timedVars>>

(************************* results and panics ******************************)
Ok(v) == [panic |-> FALSE, val |-> v]
Panicked == [panic |-> TRUE, val |-> 0]

\* usize `a % b`: panics when b = 0
usize_rem(a, b) == IF b = 0 THEN Panicked ELSE Ok(a % b)

\* usize `a - b`: an underflow panics (overflow checks on); the model
\* reports the underflow of a build without the checks as a panic too,
\* the wrapped value being outside the range of values it represents.
usize_sub(a, b) == IF a < b THEN Panicked ELSE Ok(a - b)

(***************************** i32 arithmetic ******************************)
\* i32::MAX and i32::MIN; the model's integers have this very range, so an
\* overflow is detected before the overflowing value is computed.
I32_MAX == 2147483647
I32_MIN == -I32_MAX - 1
Limb == 256 * 256
HalfLimb == Limb \div 2

\* `a + b` on i32: chk = overflow checks on (panic), off (two's complement wrap)
i32_add(chk, a, b) ==
    IF b > 0 /\ a > I32_MAX - b
    THEN IF chk THEN Panicked ELSE Ok(((a - I32_MAX) - 1) + ((b - I32_MAX) - 1))
    ELSE IF b < 0 /\ a < I32_MIN - b
    THEN IF chk THEN Panicked ELSE Ok(((a + I32_MAX) + 1) + ((b + I32_MAX) + 1))
    ELSE Ok(a + b)

\* `a - b` on i32
i32_sub(chk, a, b) ==
    IF b < 0 /\ a > I32_MAX + b
    THEN IF chk THEN Panicked ELSE Ok(((a - I32_MAX) - 1) - ((b + I32_MAX) + 1))
    ELSE IF b > 0 /\ a < I32_MIN + b
    THEN IF chk THEN Panicked ELSE Ok(((a + I32_MAX) + 1) - ((b - I32_MAX) - 1))
    ELSE Ok(a - b)

\* `a * b` on i32 for |b| < 2^15 (color_lerp multiplies by a difference of two
\* u8 values): a is split in two 16-bit limbs, the exact product is
\* hi * 2^16 + lo and it fits i32 iff hi fits 16 signed bits.
i32_mul(chk, a, b) ==
    LET al  == a % Limb
        ah  == (a - al) \div Limb
        lof == al * b
        lo  == lof % Limb
        hi  == ah * b + ((lof - lo) \div Limb)
        hw  == hi % Limb
        hs  == IF hw >= HalfLimb THEN hw - Limb ELSE hw
    IN  IF hi >= -HalfLimb /\ hi < HalfLimb THEN Ok(hi * Limb + lo)
        ELSE IF chk THEN Panicked ELSE Ok(hs * Limb + lo)

\* `a / b` on i32 with b > 0: the quotient rounded toward zero
div_toward_zero(a, b) ==
    LET q == a \div b
    IN  IF a < 0 /\ a % b # 0 THEN q + 1 ELSE q

\* `a / b` on i32: panics on b = 0 and on MIN / -1 in every build
i32_div(a, b) ==
    IF b = 0 THEN Panicked
    ELSE IF b > 0 THEN Ok(div_toward_zero(a, b))
    ELSE IF b = I32_MIN THEN Ok(IF a = I32_MIN THEN 1 ELSE 0)
    ELSE IF a = I32_MIN /\ b = -1 THEN Panicked
    ELSE Ok(-div_toward_zero(a, -b))

\* `x as u8` on i32: the low eight bits
as_u8(x) == x % 256

\* `x as i32` on usize (a 32-bit usize, the embedded target)
as_i32(x) == IF x <= I32_MAX THEN x ELSE ((x - I32_MAX) - 1) + I32_MIN

(******************************* colors ************************************)
RGBA8(r, g, b, a) == [r |-> r, g |-> g, b |-> b, a |-> a]
BLACK_A == RGBA8(0, 0, 0, 255)
WHITE_A == RGBA8(255, 255, 255, 255)
ORANGE_A == RGBA8(255, 165, 0, 255)
DEEP_BLUE_A == RGBA8(0, 127, 255, 255)
\* a color that is not fully opaque (any RGBA8 value is a valid color)
CLEAR_A == RGBA8(1, 128, 254, 0)

\* the closure `lerp` of color_lerp, on one channel
lerp_channel(chk, factor, in_min, in_max, start, end) ==
    LET d1 == i32_sub(chk, factor, in_min)
        d2 == i32_sub(chk, end, start)
        m  == IF d1.panic \/ d2.panic THEN Panicked ELSE i32_mul(chk, d1.val, d2.val)
        d3 == IF m.panic THEN Panicked ELSE i32_sub(chk, in_max, in_min)
        q  == IF d3.panic THEN Panicked ELSE i32_div(m.val, d3.val)
        s  == IF q.panic THEN Panicked ELSE i32_add(chk, q.val, start)
    IN  IF s.panic THEN Panicked ELSE Ok(as_u8(s.val))

color_lerp(chk, factor, in_min, in_max, start_color, end_color) ==
    LET r == lerp_channel(chk, factor, in_min, in_max, start_color.r, end_color.r)
        g == lerp_channel(chk, factor, in_min, in_max, start_color.g, end_color.g)
        b == lerp_channel(chk, factor, in_min, in_max, start_color.b, end_color.b)
        a == lerp_channel(chk, factor, in_min, in_max, start_color.a, end_color.a)
    IN  IF r.panic \/ g.panic \/ b.panic \/ a.panic THEN Panicked
        ELSE Ok(RGBA8(r.val, g.val, b.val, a.val))

(***************************** Progression *********************************)
\* Progression::new
ProgressionNew(total) == [current |-> 0, total |-> total, is_forward |-> TRUE]

\* #[derive(Default)]
ProgressionDefault == [current |-> 0, total |-> 0, is_forward |-> FALSE]

\* result of a mutator: the new Progression, the value returned, a panic
Done(p, r) == [panic |-> FALSE, prog |-> p, ret |-> r]
Abort(p) == [panic |-> TRUE, prog |-> p, ret |-> "unit"]

is_mono_total0(p) == p.total = 0

is_mono(p) == p.total <= 1

is_first_frame(p) == p.current = 0

get_current(p) ==
    IF is_mono(p) THEN Ok(0)
    ELSE IF p.is_forward THEN Ok(p.current)
    ELSE LET a == usize_sub(p.total, 1)
         IN  IF a.panic THEN Panicked ELSE usize_sub(a.val, p.current)

up_one_saturating(p) ==
    IF is_mono(p) THEN Ok(0)
    ELSE IF p.current + 1 >= p.total THEN Ok(p.current) ELSE Ok(p.current + 1)

up_one(p) ==
    IF is_mono(p) THEN Ok(0) ELSE usize_rem(p.current + 1, p.total)

down_one_saturating(p) ==
    IF is_mono(p) THEN Ok(0)
    ELSE IF p.current = 0 THEN Ok(0) ELSE Ok(p.current - 1)

down_one(p) ==
    IF is_mono(p) THEN Ok(0) ELSE usize_rem(p.current + p.total - 1, p.total)

peek_next(p) == up_one(p)

peek_prev(p) == down_one(p)

reverse_direction_mirroring(p) ==
    Done([p EXCEPT !.is_forward = ~p.is_forward,
                   !.current = IF p.total = 0 THEN 0 ELSE p.total - 1 - p.current],
         "unit")

reverse_direction(p) == Done([p EXCEPT !.is_forward = ~p.is_forward], "unit")

set_current_unreduced(p, value) ==
    IF is_mono(p) THEN Done(p, "unit")
    ELSE Done([p EXCEPT !.current = value], "unit")

set_current(p, value) ==
    IF is_mono(p) THEN Done(p, "unit")
    ELSE LET v == usize_rem(value, p.total)
         IN  IF v.panic THEN Abort(p) ELSE Done([p EXCEPT !.current = v.val], "unit")

decrement(p) ==
    IF is_mono(p) THEN Done(p, "unit")
    ELSE LET n == peek_prev(p)
         IN  IF n.panic THEN Abort(p) ELSE Done([p EXCEPT !.current = n.val], "unit")

Bool(b) == IF b THEN "true" ELSE "false"

checked_decrement(p) ==
    IF is_mono(p) THEN Done(p, "false")
    ELSE LET d == decrement(p)
             t == usize_sub(d.prog.total, 1)
         IN  IF d.panic \/ t.panic THEN Abort(d.prog)
             ELSE Done(d.prog, Bool(d.prog.current = t.val))

increment(p) ==
    IF is_mono(p) THEN Done(p, "unit")
    ELSE LET n == peek_next(p)
         IN  IF n.panic THEN Abort(p) ELSE Done([p EXCEPT !.current = n.val], "unit")

checked_increment(p) ==
    IF is_mono(p) THEN Done(p, "false")
    ELSE LET i == increment(p)
         IN  IF i.panic THEN Abort(i.prog)
             ELSE Done(i.prog, Bool(i.prog.current = 0))

reset_to_new(p) == Done(ProgressionNew(p.total), "unit")

reset(p) == Done([p EXCEPT !.current = 0], "unit")

(************************** rainbows and fades *****************************)
\* `slice[index]`: panics when index is out of range (slices count from 0)
slice_index(slice, index) ==
    IF index < Len(slice) THEN Ok(slice[index + 1]) ELSE Panicked

\* impl Index<usize> for ReversibleRainbow.  Backward: an underflow of
\* len - 1 - index panics with overflow checks and, without them, wraps to an
\* index beyond the slice, which panics as well.
rainbow_index(rb, index) ==
    IF rb.rainbow_dir = "Forward" THEN slice_index(rb.backer, index)
    ELSE LET a == usize_sub(Len(rb.backer), 1)
             i == IF a.panic THEN Panicked ELSE usize_sub(a.val, index)
         IN  IF i.panic THEN Panicked ELSE slice_index(rb.backer, i.val)

StatefulRainbowNew_one_past(rainbow, rainbow_dir) ==
    [backer |-> [backer |-> rainbow, rainbow_dir |-> rainbow_dir],
     position |-> ProgressionNew(Len(rainbow) + 1)]

\* StatefulRainbow::new
StatefulRainbowNew(rainbow, rainbow_dir) ==
    [backer |-> [backer |-> rainbow, rainbow_dir |-> rainbow_dir],
     position |-> ProgressionNew(Len(rainbow))]

current_color(sr) ==
    LET i == get_current(sr.position)
    IN  IF i.panic THEN Panicked ELSE rainbow_index(sr.backer, i.val)

peek_next_color(sr) ==
    LET i == peek_next(sr.position)
    IN  IF i.panic THEN Panicked ELSE rainbow_index(sr.backer, i.val)

peek_last_color(sr) ==
    LET i == peek_prev(sr.position)
    IN  IF i.panic THEN Panicked ELSE rainbow_index(sr.backer, i.val)

\* ManipulatableColor::lerp_with, with the arguments it hands to color_lerp
lerp_with_args(factor) ==
    [called |-> TRUE,
     factor |-> IF get_current(factor).panic THEN 0
                ELSE as_i32(get_current(factor).val),
     in_min |-> 0,
     in_max |-> as_i32(factor.total)]

lerp_with(chk, self, to_color, factor) ==
    LET f == get_current(factor)
    IN  IF f.panic THEN Panicked
        ELSE color_lerp(chk, as_i32(f.val), 0, as_i32(factor.total), self, to_color)

NoLerp == [called |-> FALSE, factor |-> 0, in_min |-> 0, in_max |-> 0]
FadeResult(res, lerp) == [panic |-> res.panic, val |-> res.val, lerp |-> lerp]

calculate_fade_color_unguarded(chk, rainbow, fr) ==
    LET cur == current_color(rainbow)
        nxt == peek_next_color(rainbow)
    IN  IF cur.panic \/ nxt.panic THEN FadeResult(Panicked, NoLerp)
        ELSE FadeResult(lerp_with(chk, cur.val, nxt.val, fr), lerp_with_args(fr))

\* FadeRainbow::calculate_fade_color; lerp records the call of the
\* interpolation, if one was made
calculate_fade_color(chk, rainbow, fr) ==
    LET cur == current_color(rainbow)
        nxt == peek_next_color(rainbow)
    IN  IF cur.panic THEN FadeResult(Panicked, NoLerp)
        ELSE IF fr.total = 0 THEN FadeResult(cur, NoLerp)
        ELSE IF nxt.panic THEN FadeResult(Panicked, NoLerp)
        ELSE FadeResult(lerp_with(chk, cur.val, nxt.val, fr), lerp_with_args(fr))

\* StatefulRainbow::increment / decrement / reset
sr_increment(sr) == [sr EXCEPT !.position = increment(sr.position).prog]
sr_decrement(sr) == [sr EXCEPT !.position = decrement(sr.position).prog]
sr_reset(sr) == [sr EXCEPT !.position = reset(sr.position).prog]

\* a TimedRainbows over the three objects it borrows
TimedRainbows(f, i, fr) ==
    [fade_rainbow |-> f, incremental_rainbow |-> i, frames |-> fr]

advance_rainbow_color_of_fade(tr) ==
    [tr EXCEPT !.fade_rainbow = sr_increment(@),
               !.frames = reset(@).prog]

\* MarchingRainbowMut::advance_rainbow_color, for TimedRainbows: rainbow_mut()
\* is incremental_rainbow and frames_mut() is frames
advance_rainbow_color(tr) ==
    [tr EXCEPT !.incremental_rainbow = sr_increment(@),
               !.frames = reset(@).prog]

(****************************** Animation **********************************)
MAX_NUM_ACTIVE_TRIGGERS == 10
MAX_OFFSET == 65535

RGB8(r, g, b) == [r |-> r, g |-> g, b |-> b]
RGB8Default == RGB8(0, 0, 0)
RED == RGB8(255, 0, 0)
BLUE == RGB8(0, 0, 255)
GREEN == RGB8(0, 255, 0)

Leds == 0..(N_LED - 1)

\* utility::convert_ms_to_frames
convert_ms_to_frames(millis, frame_rate) == (millis * frame_rate) \div 1000

default_translation_array_constant(start_at) == [i \in 1..N_LED |-> start_at]

\* utility::default_translation_array
default_translation_array(start_at) == [i \in 1..N_LED |-> start_at + (i - 1)]

\* what one layer writes in a frame: the LEDs it paints and the color it
\* paints them with
NoWrite == [leds |-> {}, color |-> RGB8Default]
Paint(segment, w) ==
    [i \in 1..N_LED |-> IF (i - 1) \in w.leds THEN w.color ELSE segment[i]]

LayerNew(offset) == [offset |-> offset, has_been_triggered |-> FALSE]

\* background::Background::update: paints, and uses up the one-shot flag
background_update(bg, segment, w) ==
    [layer |-> [bg EXCEPT !.has_been_triggered = FALSE],
     segment |-> Paint(segment, w)]

\* foreground::Foreground::update: paints, and uses up the one-shot flag
foreground_update(fg, segment, w) ==
    [layer |-> [fg EXCEPT !.has_been_triggered = FALSE],
     segment |-> Paint(segment, w)]

\* trigger::TriggerCollection::add_trigger: one new instance, its duration
\* converted to frames; at capacity the policy is not fixed (here: reject)
add_trigger(tc, params, frame_rate) ==
    IF Len(tc) < MAX_NUM_ACTIVE_TRIGGERS
    THEN Append(tc, [frames_left |->
                        convert_ms_to_frames(params.duration_ms, frame_rate)])
    ELSE tc

\* trigger::TriggerCollection::update: every active instance advances one
\* frame and paints; an instance whose run is over is retired
triggers_update(tc, segment, w) ==
    [layer |-> SelectSeq([i \in 1..Len(tc) |-> [tc[i] EXCEPT !.frames_left = @ - 1]],
                         LAMBDA t : t.frames_left > 0),
     segment |-> IF Len(tc) = 0 THEN segment ELSE Paint(segment, w)]

update_triggers_first(a, wb, wf, wt) ==
    LET t == triggers_update(a.triggers, a.segment, wt)
        b == background_update(a.bg_state, t.segment, wb)
        f == foreground_update(a.fg_state, b.segment, wf)
    IN  [a EXCEPT !.bg_state = b.layer, !.fg_state = f.layer,
                  !.triggers = t.layer, !.segment = f.segment]

\* Animation::update
update(a, wb, wf, wt) ==
    LET b == background_update(a.bg_state, a.segment, wb)
        f == foreground_update(a.fg_state, b.segment, wf)
        t == triggers_update(a.triggers, f.segment, wt)
    IN  [a EXCEPT !.bg_state = b.layer, !.fg_state = f.layer,
                  !.triggers = t.layer, !.segment = t.segment]

set_offset_any_layer(a, a_type, offset) ==
    IF a_type = "Foreground" THEN [a EXCEPT !.fg_state.offset = offset]
    ELSE [a EXCEPT !.bg_state.offset = offset]

\* Animation::set_offset
set_offset(a, a_type, offset) ==
    CASE a_type = "Background" -> [a EXCEPT !.bg_state.offset = offset]
      [] a_type = "Foreground" -> [a EXCEPT !.fg_state.offset = offset]
      [] a_type = "Trigger" -> a

trigger_flags_both(a, params, frame_rate) ==
    CASE params.mode = "NoTrigger" -> [anim |-> a, add_trigger_calls |-> 0]
      [] params.mode \in {"Background", "Foreground"} ->
            [anim |-> [a EXCEPT !.bg_state.has_been_triggered = TRUE,
                                !.fg_state.has_been_triggered = TRUE],
             add_trigger_calls |-> 0]
      [] OTHER ->
            [anim |-> [a EXCEPT !.triggers = add_trigger(@, params, frame_rate)],
             add_trigger_calls |-> 1]

\* Animation::trigger, with the number of calls of add_trigger it made
trigger(a, params, frame_rate) ==
    CASE params.mode = "NoTrigger" -> [anim |-> a, add_trigger_calls |-> 0]
      [] params.mode = "Background" ->
            [anim |-> [a EXCEPT !.bg_state.has_been_triggered = TRUE],
             add_trigger_calls |-> 0]
      [] params.mode = "Foreground" ->
            [anim |-> [a EXCEPT !.fg_state.has_been_triggered = TRUE],
             add_trigger_calls |-> 0]
      [] OTHER ->
            [anim |-> [a EXCEPT !.triggers = add_trigger(@, params, frame_rate)],
             add_trigger_calls |-> 1]

\* Animation::new
AnimationNew(bg_offset, fg_offset) ==
    [translation_array |-> default_translation_array(0),
     segment |-> [i \in 1..N_LED |-> RGB8Default],
     fg_state |-> LayerNew(fg_offset),
     bg_state |-> LayerNew(bg_offset),
     triggers |-> <<>>]

(*********************** the pseudorandom generator ************************)
\* Unsigned integers wider than the model's integers are sequences of bytes,
\* least significant byte first: a u32 has 4 bytes, a u64 8, a u128 16.
U32(b0, b1, b2, b3) == <<b0, b1, b2, b3>>
WY_CONST_0 == <<165, 120, 108, 170, 204, 141, 53, 45>>
WY_CONST_1 == <<201, 172, 46, 150, 147, 75, 184, 139>>
RNG_INIT == U32(42, 0, 0, 0)

\* u32 -> u64 (`.into()`)
widen(x) == x \o <<0, 0, 0, 0>>

\* `x.wrapping_add(y)` on two u64
wrapping_add(x, y) ==
    LET carry[i \in 0..Len(x)] ==
            IF i = 0 THEN 0 ELSE (x[i] + y[i] + carry[i - 1]) \div 256
    IN  [i \in 1..Len(x) |-> (x[i] + y[i] + carry[i - 1]) % 256]

xor_bit(a, b, w) == IF ((a \div w) % 2) # ((b \div w) % 2) THEN w ELSE 0
xor_byte(a, b) ==
    xor_bit(a, b, 1) + xor_bit(a, b, 2) + xor_bit(a, b, 4) + xor_bit(a, b, 8)
    + xor_bit(a, b, 16) + xor_bit(a, b, 32) + xor_bit(a, b, 64) + xor_bit(a, b, 128)

\* `x ^ y`
xor(x, y) == [i \in 1..Len(x) |-> xor_byte(x[i], y[i])]

\* `u128::from(x) * u128::from(y)` on two u64: 16 bytes
mul_u128(x, y) ==
    LET col[k \in 1..16] ==
            LET part[i \in 0..8] ==
                    IF i = 0 THEN 0
                    ELSE part[i - 1]
                         + (IF k + 1 - i >= 1 /\ k + 1 - i <= 8
                            THEN x[i] * y[k + 1 - i] ELSE 0)
            IN  part[8]
        carry[k \in 0..16] ==
            IF k = 0 THEN 0 ELSE (col[k] + carry[k - 1]) \div 256
    IN  [k \in 1..16 |-> (col[k] + carry[k - 1]) % 256]

\* `(t as u64) ^ (t >> 32) as u64`
fold(t) == [j \in 1..8 |-> xor_byte(t[j], t[j + 4])]

\* `s as u32`
as_u32(s) == SubSeq(s, 1, 4)

\* `x as u16`, a number
as_u16(x) == x[1] + 256 * x[2]

\* set_random_seed: the seed overwrites RNG
set_random_seed_mixing(rng, seed) == xor(rng, seed)

set_random_seed(rng, seed) == seed

\* gen_u64, line 42: the new state, a u64
new_state(rng) == wrapping_add(widen(rng), WY_CONST_0)

\* gen_u64, lines 44-45: the output drawn from the new state s
output(s) == fold(mul_u128(s, xor(s, WY_CONST_1)))

stored_output(s) == as_u32(output(s))

\* gen_u64, line 43: what is stored back to RNG
stored(s) == as_u32(s)

\* gen_u64, without the accesses to RNG split: [RNG, out]
gen_u64(rng) ==
    LET s == new_state(rng)
    IN  [RNG |-> stored(s), out |-> output(s)]

get_random_offset_two_draws(rng) ==
    LET g == gen_u64(gen_u64(rng).RNG)
    IN  [RNG |-> g.RNG, out |-> as_u16(g.out)]

\* get_random_offset
get_random_offset(rng) ==
    LET g == gen_u64(rng)
    IN  [RNG |-> g.RNG, out |-> as_u16(g.out)]

(********************* usize at the width of the target ********************)
\* The crate targets 32-bit microcontrollers: a usize is a u32, four bytes,
\* least significant first, wherever the top of its range matters.
to_u32(n) == U32(n % 256, (n \div 256) % 256, (n \div (256 * 256)) % 256,
                 n \div (256 * 256 * 256))

\* the borrow out of each byte of x - y
borrows(x, y) ==
    LET b[i \in 0..Len(x)] ==
            IF i = 0 THEN 0
            ELSE IF x[i] - y[i] - b[i - 1] < 0 THEN 1 ELSE 0
    IN  b

\* `x - y` without overflow checks
wrapping_sub(x, y) ==
    [i \in 1..Len(x) |-> (x[i] - y[i] - borrows(x, y)[i - 1]) % 256]

\* x < y: `x - y` overflows
underflows(x, y) == borrows(x, y)[Len(x)] = 1

\* `slice[i]` with i a usize: a bounds check, then the element
slice_get(slice, i) ==
    IF i[3] = 0 /\ i[4] = 0 /\ i[1] + 256 * i[2] < Len(slice)
    THEN Ok(slice[i[1] + 256 * i[2] + 1])
    ELSE Panicked

index_forward_only(chk, rb, i) == slice_get(rb.backer, i)

\* impl Index<usize> for ReversibleRainbow, with the subtractions wrapping in
\* a build without overflow checks
index(chk, rb, i) ==
    IF rb.rainbow_dir = "Forward" THEN slice_get(rb.backer, i)
    ELSE LET len == to_u32(Len(rb.backer))
             a == wrapping_sub(len, to_u32(1))
         IN  IF chk /\ (underflows(len, to_u32(1)) \/ underflows(a, i))
             THEN Panicked
             ELSE slice_get(rb.backer, wrapping_sub(a, i))

\* `n / d` with n a usize in bytes and d a positive divisor: long division
\* from the most significant byte
div_usize(n, d) ==
    LET step[k \in 0..Len(n)] ==
            IF k = 0 THEN [q |-> 0, r |-> 0]
            ELSE LET cur == step[k - 1].r * 256 + n[Len(n) + 1 - k]
                 IN  [q |-> step[k - 1].q * 256 + cur \div d, r |-> cur % d]
    IN  step[Len(n)].q

\* `max_offset * x / total` of shift_offset: the product overflows a 32-bit
\* usize when its upper bytes are not all zero
scaled(chk, x, total) ==
    LET product == mul_u128(widen(to_u32(MAX_OFFSET)), widen(to_u32(x)))
    IN  IF chk /\ (\E i \in 5..Len(product) : product[i] # 0) THEN Panicked
        ELSE Ok(div_usize(as_u32(product), total))

\* utility::shift_offset
shift_offset(chk, starting_offset, fr, direction) ==
    IF fr.total = 0 THEN Ok(starting_offset)
    ELSE LET cur == get_current(fr)
             remaining == IF cur.panic THEN Panicked
                          ELSE usize_sub(fr.total, cur.val)
             offset_shift ==
                CASE direction = "Positive" ->
                        IF cur.panic THEN Panicked
                        ELSE scaled(chk, cur.val, fr.total)
                  [] direction = "Negative" ->
                        IF remaining.panic THEN Panicked
                        ELSE scaled(chk, remaining.val, fr.total)
                  [] direction = "Stopped" -> Ok(0)
         IN  IF offset_shift.panic THEN Panicked
             ELSE Ok((starting_offset + offset_shift.val) % (MAX_OFFSET + 1))

(********************* the Progression state machine ***********************)
NoStreak == [op |-> "none", n |-> 0, start |-> 0, trues |-> 0]
NotCalled == [called |-> FALSE, panic |-> FALSE, val |-> BLACK_A]
NoFade == [called |-> FALSE, panic |-> FALSE, val |-> BLACK_A, lerp |-> NoLerp]

\* the components a specification does not exercise stay as constructed
IdleProg ==
    /\ prog = ProgressionDefault
    /\ prev = ProgressionDefault
    /\ last_op = "new"
    /\ arg = 0
    /\ ret = "unit"
    /\ fault = FALSE
    /\ streak = NoStreak

IdleLerp ==
    /\ lerp_args = [factor |-> 0, in_min |-> 0, in_max |-> 0,
                    start_color |-> BLACK_A, end_color |-> BLACK_A]
    /\ lerp_out = NotCalled

IdleFade ==
    /\ fade_rainbow = StatefulRainbowNew(<<>>, "Forward")
    /\ frames = ProgressionDefault
    /\ fade_out = NoFade

NoOp == [name |-> "new", a_type |-> "", offset |-> 0, mode |-> "",
         duration_ms |-> 0, frame_rate |-> 0, add_trigger_calls |-> 0]
NoFrame == [bg |-> NoWrite, fg |-> NoWrite, tr |-> NoWrite]

IdleAnim ==
    /\ anim = AnimationNew(0, 0)
    /\ anim_op = NoOp
    /\ frame = NoFrame

Runs == {1, 2}
Callers == {1, 2}
NoRun == [RNG |-> RNG_INIT, seeded |-> FALSE, seed |-> RNG_INIT,
          before |-> RNG_INIT, outs |-> <<>>]
NoCaller == [pc |-> "load", rng |-> RNG_INIT, seen |-> 1, n |-> 0, outs |-> <<>>]

IdleRng == runs = [r \in Runs |-> NoRun]

IdleRace ==
    /\ race_seed = RNG_INIT
    /\ RNG = <<RNG_INIT>>
    /\ callers = [c \in Callers |-> NoCaller]

NoIndex == [called |-> FALSE, index |-> to_u32(0), panic |-> FALSE, val |-> BLACK_A]
NoShift == [called |-> FALSE, start |-> 0, frames |-> ProgressionDefault,
            direction |-> "Stopped", panic |-> FALSE, val |-> 0]

IdleIndex ==
    /\ rev_rainbow = [backer |-> <<>>, rainbow_dir |-> "Forward"]
    /\ index_out = NoIndex

IdleShift == shift_out = NoShift

IdleTimed ==
    /\ incremental_rainbow = StatefulRainbowNew(<<>>, "Forward")
    /\ timed_op = "new"

InitProg ==
    /\ IdleIndex
    /\ IdleShift
    /\ IdleTimed
    /\ overflow_checks = TRUE
    /\ IdleLerp
    /\ IdleFade
    /\ IdleAnim
    /\ IdleRng
    /\ IdleRace
    /\ prog \in {ProgressionNew(t) : t \in 0..MaxTotal} \cup {ProgressionDefault}
    /\ prev = prog
    /\ last_op = "new"
    /\ arg = 0
    /\ ret = "unit"
    /\ fault = FALSE
    /\ streak = NoStreak

\* A run of consecutive calls of the same stepping operation, at most
\* prog.total long: where it started (the visible position before the first
\* call), how many calls it holds, and how many of them returned true.
NextStreak(op, r) ==
    IF op \notin {"increment", "checked_increment"} \/ r.panic THEN NoStreak
    ELSE IF streak.op = op /\ streak.n < prog.total
         THEN [streak EXCEPT !.n = @ + 1,
                             !.trues = @ + (IF r.ret = "true" THEN 1 ELSE 0)]
         ELSE [op |-> op, n |-> 1, start |-> get_current(prog).val,
               trues |-> IF r.ret = "true" THEN 1 ELSE 0]

\* One call of a Progression method with argument a and result r
CallWith(op, a, r) ==
    /\ ~fault
    /\ prev' = prog
    /\ prog' = r.prog
    /\ last_op' = op
    /\ arg' = a
    /\ ret' = r.ret
    /\ fault' = r.panic
    /\ streak' = NextStreak(op, r)
    /\ UNCHANGED <<overflow_checks, lerpVars, fadeVars, animVars, rngVars, raceVars, indexVars, shiftVars, timedVars>>

\* One call of a Progression method without arguments
Call(op, r) == CallWith(op, 0, r)

ReverseDirection == Call("reverse_direction", reverse_direction(prog))

SetCurrent == \E v \in 0..MaxValue : CallWith("set_current", v, set_current(prog, v))

Decrement == Call("decrement", decrement(prog))

CheckedDecrement == Call("checked_decrement", checked_decrement(prog))

Increment == Call("increment", increment(prog))

CheckedIncrement == Call("checked_increment", checked_increment(prog))

Reset == Call("reset", reset(prog))

NextProg ==
    \/ ReverseDirection
    \/ SetCurrent
    \/ Decrement
    \/ CheckedDecrement
    \/ Increment
    \/ CheckedIncrement
    \/ Reset

SpecProg == InitProg /\ [][NextProg]_vars

(************************ one call of color_lerp ***************************)
Palette == {BLACK_A, WHITE_A, ORANGE_A, DEEP_BLUE_A, CLEAR_A}
InMins == {-3, 0, 2}
InMaxs == {-3, 0, 2, 5, LargeRange}

InitLerp ==
    /\ IdleIndex
    /\ IdleShift
    /\ IdleTimed
    /\ overflow_checks \in BOOLEAN
    /\ IdleProg
    /\ IdleFade
    /\ IdleAnim
    /\ IdleRng
    /\ IdleRace
    /\ \E lo \in InMins, hi \in InMaxs :
         \E f \in {lo, hi, 1}, c1 \in Palette, c2 \in Palette :
            lerp_args = [factor |-> f, in_min |-> lo, in_max |-> hi,
                         start_color |-> c1, end_color |-> c2]
    /\ lerp_out = NotCalled

ColorLerp ==
    /\ ~lerp_out.called
    /\ LET r == color_lerp(overflow_checks, lerp_args.factor, lerp_args.in_min,
                           lerp_args.in_max, lerp_args.start_color,
                           lerp_args.end_color)
       IN  lerp_out' = [called |-> TRUE, panic |-> r.panic,
                        val |-> IF r.panic THEN BLACK_A ELSE r.val]
    /\ UNCHANGED <<progVars, overflow_checks, lerp_args, fadeVars, animVars, rngVars, raceVars, indexVars, shiftVars, timedVars>>

NextLerp == ColorLerp

SpecLerp == InitLerp /\ [][NextLerp]_vars

(***************************** a fade **************************************)
Rainbows ==
    { <<>>,
      <<ORANGE_A>>,
      <<BLACK_A, WHITE_A>>,
      <<ORANGE_A, DEEP_BLUE_A, CLEAR_A>> }

InitFade ==
    /\ IdleIndex
    /\ IdleShift
    /\ IdleTimed
    /\ overflow_checks \in BOOLEAN
    /\ IdleProg
    /\ IdleLerp
    /\ IdleAnim
    /\ IdleRng
    /\ IdleRace
    /\ fade_rainbow \in {StatefulRainbowNew(r, d) :
                            r \in Rainbows, d \in {"Forward", "Backward"}}
    /\ frames \in {ProgressionNew(t) : t \in 0..MaxFrames} \cup {ProgressionDefault}
    /\ fade_out = NoFade

\* a call of a Progression method on frames, by the layer that owns it
FramesCall(r) ==
    /\ ~fade_out.panic
    /\ ~r.panic
    /\ frames' = r.prog
    /\ fade_out' = NoFade
    /\ UNCHANGED <<progVars, overflow_checks, lerpVars, fade_rainbow, animVars, rngVars, raceVars, indexVars, shiftVars, timedVars>>

FramesIncrement == FramesCall(increment(frames))
FramesCheckedIncrement == FramesCall(checked_increment(frames))
FramesDecrement == FramesCall(decrement(frames))
FramesSetCurrent == \E v \in 0..MaxValue : FramesCall(set_current(frames, v))
FramesReverseDirection == FramesCall(reverse_direction(frames))
FramesReset == FramesCall(reset(frames))

\* a call of a StatefulRainbow method (or of a method of its pub position)
RainbowCall(r) ==
    /\ ~fade_out.panic
    /\ ~r.panic
    /\ fade_rainbow' = [fade_rainbow EXCEPT !.position = r.prog]
    /\ fade_out' = NoFade
    /\ UNCHANGED <<progVars, overflow_checks, lerpVars, frames, animVars, rngVars, raceVars, indexVars, shiftVars, timedVars>>

RainbowIncrement == RainbowCall(increment(fade_rainbow.position))
RainbowDecrement == RainbowCall(decrement(fade_rainbow.position))
RainbowReset == RainbowCall(reset(fade_rainbow.position))
RainbowReverseDirection == RainbowCall(reverse_direction(fade_rainbow.position))

CalculateFadeColor ==
    /\ ~fade_out.panic
    /\ LET r == calculate_fade_color(overflow_checks, fade_rainbow, frames)
       IN  fade_out' = [called |-> TRUE, panic |-> r.panic,
                        val |-> IF r.panic THEN BLACK_A ELSE r.val,
                        lerp |-> r.lerp]
    /\ UNCHANGED <<progVars, overflow_checks, lerpVars, fade_rainbow, frames, animVars, rngVars, raceVars, indexVars, shiftVars, timedVars>>

NextFade ==
    \/ FramesIncrement
    \/ FramesCheckedIncrement
    \/ FramesDecrement
    \/ FramesSetCurrent
    \/ FramesReverseDirection
    \/ FramesReset
    \/ RainbowIncrement
    \/ RainbowDecrement
    \/ RainbowReset
    \/ RainbowReverseDirection
    \/ CalculateFadeColor

SpecFade == InitFade /\ [][NextFade]_vars

(************************* the Animation frames ****************************)
OffsetValues == {0, MAX_OFFSET}
AnimationTypes == {"Background", "Foreground", "Trigger"}
TriggerModes == {"NoTrigger", "Background", "Foreground", "ColorPulse", "Flash"}
DurationsMs == {20}
FrameRates == {60}

InitAnim ==
    /\ IdleIndex
    /\ IdleShift
    /\ IdleTimed
    /\ IdleRng
    /\ IdleRace
    /\ overflow_checks = TRUE
    /\ IdleProg
    /\ IdleLerp
    /\ IdleFade
    /\ anim = AnimationNew(0, 0)
    /\ anim_op = NoOp
    /\ frame = NoFrame

\* the writes a layer may make in one frame
Writes(color) == {[leds |-> L, color |-> color] : L \in SUBSET Leds}

\* the background repaints the whole segment (the segment is rewritten every
\* frame) or, when it has nothing to show, leaves it alone
BackgroundWrites(color) == {[leds |-> L, color |-> color] : L \in {Leds, {}}}

Update ==
    \E wb \in BackgroundWrites(RED), wf \in Writes(BLUE),
       wt \in IF Len(anim.triggers) = 0 THEN {NoWrite} ELSE Writes(GREEN) :
        /\ anim' = update(anim, wb, wf, wt)
        /\ anim_op' = [NoOp EXCEPT !.name = "update"]
        /\ frame' = [bg |-> wb, fg |-> wf, tr |-> wt]
        /\ UNCHANGED <<progVars, overflow_checks, lerpVars, fadeVars, rngVars, raceVars, indexVars, shiftVars, timedVars>>

SetOffset ==
    \E a_type \in AnimationTypes, offset \in OffsetValues :
        /\ anim' = set_offset(anim, a_type, offset)
        /\ anim_op' = [NoOp EXCEPT !.name = "set_offset", !.a_type = a_type,
                                   !.offset = offset]
        /\ frame' = NoFrame
        /\ UNCHANGED <<progVars, overflow_checks, lerpVars, fadeVars, rngVars, raceVars, indexVars, shiftVars, timedVars>>

Trigger ==
    \E mode \in TriggerModes, d \in DurationsMs, frame_rate \in FrameRates :
        LET params == [mode |-> mode, duration_ms |-> d]
            r == trigger(anim, params, frame_rate)
        IN  /\ Len(r.anim.triggers) <= MaxActive
            /\ anim' = r.anim
            /\ anim_op' = [NoOp EXCEPT !.name = "trigger", !.mode = mode,
                                       !.duration_ms = d, !.frame_rate = frame_rate,
                                       !.add_trigger_calls = r.add_trigger_calls]
            /\ frame' = NoFrame
            /\ UNCHANGED <<progVars, overflow_checks, lerpVars, fadeVars, rngVars, raceVars, indexVars, shiftVars, timedVars>>

NextAnim ==
    \/ Update
    \/ SetOffset
    \/ Trigger

SpecAnim == InitAnim /\ [][NextAnim]_vars

(******************** two runs of the generator ****************************)
\* Two separate runs of the program, each with its own static RNG, scheduled
\* independently.  A run draws offsets and may reseed at any point; `before`
\* is the state the last reseed overwrote and `outs` the offsets drawn since.
Seeds == {U32(42, 0, 0, 0), U32(255, 255, 255, 255)}

InitRng ==
    /\ IdleIndex
    /\ IdleShift
    /\ IdleTimed
    /\ overflow_checks = TRUE
    /\ IdleProg
    /\ IdleLerp
    /\ IdleFade
    /\ IdleAnim
    /\ IdleRace
    /\ runs = [r \in Runs |-> NoRun]

SetRandomSeed(r) ==
    \E seed \in Seeds :
        /\ runs' = [runs EXCEPT ![r] =
                        [RNG |-> set_random_seed(runs[r].RNG, seed),
                         seeded |-> TRUE, seed |-> seed,
                         before |-> runs[r].RNG, outs |-> <<>>]]
        /\ UNCHANGED <<progVars, overflow_checks, lerpVars, fadeVars, animVars, raceVars, indexVars, shiftVars, timedVars>>

GetRandomOffset(r) ==
    /\ Len(runs[r].outs) < MaxDraws
    /\ LET g == get_random_offset(runs[r].RNG)
       IN  runs' = [runs EXCEPT ![r].RNG = g.RNG,
                                ![r].outs = Append(@, g.out)]
    /\ UNCHANGED <<progVars, overflow_checks, lerpVars, fadeVars, animVars, raceVars, indexVars, shiftVars, timedVars>>

NextRng ==
    \/ \E r \in Runs : SetRandomSeed(r)
    \/ \E r \in Runs : GetRandomOffset(r)

SpecRng == InitRng /\ [][NextRng]_vars

(***************** two concurrent callers of gen_u64 ***********************)
\* RNG is an atomic accessed with Ordering::Relaxed only: its stores form one
\* modification order, a load returns any store not older than the newest one
\* its thread has already read or written (callers[c].seen), and a store
\* takes any place in the order after that one.
InitRace ==
    /\ IdleIndex
    /\ IdleShift
    /\ IdleTimed
    /\ overflow_checks = TRUE
    /\ IdleProg
    /\ IdleLerp
    /\ IdleFade
    /\ IdleAnim
    /\ IdleRng
    /\ race_seed \in Seeds
    /\ RNG = <<race_seed>>
    /\ callers = [c \in Callers |-> NoCaller]

InsertAt(seq, p, v) == SubSeq(seq, 1, p - 1) \o <<v>> \o SubSeq(seq, p, Len(seq))

\* gen_u64, line 41
Load(c) ==
    /\ callers[c].pc = "load"
    /\ \E i \in callers[c].seen..Len(RNG) :
        callers' = [callers EXCEPT ![c].rng = RNG[i], ![c].seen = i,
                                   ![c].pc = "store"]
    /\ UNCHANGED <<progVars, overflow_checks, lerpVars, fadeVars, animVars, rngVars,
                   RNG, race_seed, indexVars, shiftVars, timedVars>>

\* gen_u64, lines 42-45
Store(c) ==
    /\ callers[c].pc = "store"
    /\ LET s == new_state(callers[c].rng)
       IN  \E p \in (callers[c].seen + 1)..(Len(RNG) + 1) :
            /\ RNG' = InsertAt(RNG, p, stored(s))
            /\ callers' = [d \in Callers |->
                    IF d = c
                    THEN [pc |-> IF callers[c].n + 1 < DrawsPerCaller
                                 THEN "load" ELSE "done",
                          rng |-> callers[c].rng, seen |-> p,
                          n |-> callers[c].n + 1,
                          outs |-> Append(callers[c].outs, output(s))]
                    ELSE [callers[d] EXCEPT
                            !.seen = IF @ >= p THEN @ + 1 ELSE @]]
    /\ UNCHANGED <<progVars, overflow_checks, lerpVars, fadeVars, animVars, rngVars,
                   race_seed, indexVars, shiftVars, timedVars>>

NextRace ==
    \/ \E c \in Callers : Load(c)
    \/ \E c \in Callers : Store(c)

SpecRace == InitRace /\ [][NextRace]_vars

(******************** indexing a ReversibleRainbow *************************)
Indexes ==
    {to_u32(n) : n \in 0..MaxIndex}
    \cup {U32(0, 0, 0, 128), U32(254, 255, 255, 255), U32(255, 255, 255, 255)}

InitIndex ==
    /\ overflow_checks \in BOOLEAN
    /\ IdleProg
    /\ IdleLerp
    /\ IdleFade
    /\ IdleAnim
    /\ IdleRng
    /\ IdleRace
    /\ IdleShift
    /\ IdleTimed
    /\ rev_rainbow \in {[backer |-> r, rainbow_dir |-> d] :
                            r \in Rainbows, d \in {"Forward", "Backward"}}
    /\ index_out = NoIndex

Index ==
    /\ \E i \in Indexes :
        LET r == index(overflow_checks, rev_rainbow, i)
        IN  index_out' = [called |-> TRUE, index |-> i, panic |-> r.panic,
                          val |-> IF r.panic THEN BLACK_A ELSE r.val]
    /\ UNCHANGED <<progVars, overflow_checks, lerpVars, fadeVars, animVars, rngVars,
                   raceVars, rev_rainbow, shiftVars, timedVars>>

NextIndex == Index

SpecIndex == InitIndex /\ [][NextIndex]_vars

(************************* calls of shift_offset ***************************)
Directions == {"Positive", "Negative", "Stopped"}
Starts == {0, 1, MAX_OFFSET}

InitShift ==
    /\ overflow_checks \in BOOLEAN
    /\ IdleProg
    /\ IdleLerp
    /\ IdleAnim
    /\ IdleRng
    /\ IdleRace
    /\ IdleIndex
    /\ IdleTimed
    /\ fade_rainbow = StatefulRainbowNew(<<>>, "Forward")
    /\ fade_out = NoFade
    /\ frames \in {ProgressionNew(t) : t \in (0..MaxFrames) \cup {LargeTotal}}
                    \cup {ProgressionDefault}
    /\ shift_out = NoShift

\* a call of a Progression method on frames, by the layer that owns it
ShiftFramesCall(r) ==
    /\ ~r.panic
    /\ frames' = r.prog
    /\ shift_out' = NoShift
    /\ UNCHANGED <<progVars, overflow_checks, lerpVars, fade_rainbow, fade_out,
                   animVars, rngVars, raceVars, indexVars, timedVars>>

\* increment() steps through the first MaxValue frames only
ShiftFramesIncrement ==
    /\ frames.current < MaxValue
    /\ ShiftFramesCall(increment(frames))

ShiftFramesSetCurrent ==
    \E v \in (0..MaxValue) \cup {LargeTotal - 1} :
        ShiftFramesCall(set_current(frames, v))

ShiftFramesReverseDirection == ShiftFramesCall(reverse_direction(frames))

ShiftFramesReset == ShiftFramesCall(reset(frames))

ShiftOffset ==
    /\ \E start \in Starts, direction \in Directions :
        LET r == shift_offset(overflow_checks, start, frames, direction)
        IN  shift_out' = [called |-> TRUE, start |-> start, frames |-> frames,
                          direction |-> direction, panic |-> r.panic,
                          val |-> r.val]
    /\ UNCHANGED <<progVars, overflow_checks, lerpVars, fadeVars, animVars, rngVars,
                   raceVars, indexVars, timedVars>>

NextShift ==
    \/ ShiftFramesIncrement
    \/ ShiftFramesSetCurrent
    \/ ShiftFramesReverseDirection
    \/ ShiftFramesReset
    \/ ShiftOffset

SpecShift == InitShift /\ [][NextShift]_vars

(************************** a TimedRainbows ********************************)
StatefulRainbows ==
    {StatefulRainbowNew(r, d) : r \in Rainbows, d \in {"Forward", "Backward"}}

InitTimed ==
    /\ overflow_checks = TRUE
    /\ IdleProg
    /\ IdleLerp
    /\ IdleAnim
    /\ IdleRng
    /\ IdleRace
    /\ IdleIndex
    /\ IdleShift
    /\ fade_rainbow \in StatefulRainbows
    /\ incremental_rainbow \in StatefulRainbows
    /\ frames \in {ProgressionNew(t) : t \in 0..MaxFrames}
    /\ fade_out = NoFade
    /\ timed_op = "new"

TimedUnchanged ==
    UNCHANGED <<progVars, overflow_checks, lerpVars, fade_out, animVars, rngVars,
                raceVars, indexVars, shiftVars>>

AdvanceRainbowColor ==
    /\ LET tr == advance_rainbow_color(
                    TimedRainbows(fade_rainbow, incremental_rainbow, frames))
       IN  /\ fade_rainbow' = tr.fade_rainbow
           /\ incremental_rainbow' = tr.incremental_rainbow
           /\ frames' = tr.frames
    /\ timed_op' = "advance_rainbow_color"
    /\ TimedUnchanged

StatefulOps == {"increment", "decrement", "reset"}

sr_call(op, sr) ==
    CASE op = "increment" -> sr_increment(sr)
      [] op = "decrement" -> sr_decrement(sr)
      [] op = "reset" -> sr_reset(sr)

\* a StatefulRainbow method called on the fade rainbow
FadeRainbowCall ==
    /\ \E op \in StatefulOps :
        /\ fade_rainbow' = sr_call(op, fade_rainbow)
        /\ timed_op' = op
    /\ UNCHANGED <<incremental_rainbow, frames>>
    /\ TimedUnchanged

\* a StatefulRainbow method called on the march rainbow
IncrementalRainbowCall ==
    /\ \E op \in StatefulOps :
        /\ incremental_rainbow' = sr_call(op, incremental_rainbow)
        /\ timed_op' = op
    /\ UNCHANGED <<fade_rainbow, frames>>
    /\ TimedUnchanged

\* the owning layer counts a frame
TimedFramesIncrement ==
    /\ frames' = increment(frames).prog
    /\ timed_op' = "frames.increment"
    /\ UNCHANGED <<fade_rainbow, incremental_rainbow>>
    /\ TimedUnchanged

NextTimed ==
    \/ AdvanceRainbowColor
    \/ FadeRainbowCall
    \/ IncrementalRainbowCall
    \/ TimedFramesIncrement

SpecTimed == InitTimed /\ [][NextTimed]_vars

(************************ claims on Progression ****************************)
\* C2: for total >= 2, from any reachable state, total consecutive
\* increment() calls bring get_current() back to the value it had before the
\* first call, and of total consecutive checked_increment() calls exactly one
\* returns true: the call on which the stored counter wraps to 0.
C2_IncrementCycle ==
    /\ (prog.total >= 2 /\ streak.n = prog.total) =>
          /\ get_current(prog) = Ok(streak.start)
          /\ (streak.op = "checked_increment" => streak.trues = 1)
    /\ (prog.total >= 2 /\ last_op = "checked_increment") =>
          ((ret = "true") <=> (prog.current = 0 /\ prev.current = prev.total - 1))

\* a full run of checked_increment on a reversed Progression that did not
\* start at either end
C2_Witness ==
    /\ prog.total >= 3
    /\ ~prog.is_forward
    /\ streak.op = "checked_increment"
    /\ streak.n = prog.total
    /\ streak.start = 1
    /\ prog.current = prog.total - 2

\* C3: a mono Progression (total 0 or 1) answers 0 to get_current, peek_next
\* and peek_prev after any sequence of operations, its stored counter never
\* changes, checked_increment / checked_decrement return false, and no
\* operation panics.
C3_MonoFixedPoint ==
    prog.total <= 1 =>
        /\ get_current(prog) = Ok(0)
        /\ peek_next(prog) = Ok(0)
        /\ peek_prev(prog) = Ok(0)
        /\ prog.current = prev.current
        /\ prog.current = 0
        /\ ret # "true"
        /\ ~fault

\* set_current(v), v > 0, was called on a reversed Progression of total 0
C3_Witness ==
    /\ prog.total = 0
    /\ last_op = "set_current"
    /\ ~prog.is_forward
    /\ prev = prog

\* C4: for total >= 2 and stored counter p, reverse_direction() on a forward
\* Progression leaves the stored counter at p and get_current() returns
\* total-1-p; increment() sets the stored counter to (p+1) mod total in either
\* direction, so while reversed get_current() goes down by one (mod total).
C4_ReverseKeepsCounter ==
    /\ (last_op = "reverse_direction" /\ prev.total >= 2 /\ prev.is_forward) =>
          /\ ~prog.is_forward
          /\ prog.current = prev.current
          /\ get_current(prog) = Ok(prog.total - 1 - prev.current)
    /\ (last_op = "increment" /\ prev.total >= 2) =>
          /\ prog.current = (prev.current + 1) % prev.total
          /\ prog.is_forward = prev.is_forward
          /\ (~prog.is_forward =>
                get_current(prog) =
                    Ok((get_current(prev).val + prog.total - 1) % prog.total))

\* reverse_direction() was called at a stored counter strictly inside the range
C4_Witness ==
    /\ last_op = "reverse_direction"
    /\ prog.total >= 3
    /\ prev.is_forward
    /\ prog.current > 0
    /\ prog.current < prog.total - 1
    /\ get_current(prog).val # prog.current

\* increment() was called while reversed and wrapped the stored counter
C4_WitnessIncrement ==
    /\ last_op = "increment"
    /\ prog.total >= 3
    /\ ~prog.is_forward
    /\ prog.current = 0

C5_WitnessBlend ==
    /\ fade_out.called
    /\ fade_out.lerp.called
    /\ frames.total = 1
    /\ ~frames.is_forward

\* C6: for in_min # in_max, color_lerp at factor = in_min returns start_color
\* and at factor = in_max returns end_color, exactly, on all four channels.
C6_LerpEndpointsExact ==
    (lerp_out.called /\ lerp_args.in_min # lerp_args.in_max) =>
        /\ (lerp_args.factor = lerp_args.in_min =>
              ~lerp_out.panic /\ lerp_out.val = lerp_args.start_color)
        /\ (lerp_args.factor = lerp_args.in_max =>
              ~lerp_out.panic /\ lerp_out.val = lerp_args.end_color)

\* the same, for ranges whose product with a channel difference fits i32
C6_LerpEndpointsExactInRange ==
    (/\ lerp_out.called
     /\ lerp_args.in_min # lerp_args.in_max
     /\ lerp_args.in_max - lerp_args.in_min < LargeRange) =>
        /\ (lerp_args.factor = lerp_args.in_min =>
              ~lerp_out.panic /\ lerp_out.val = lerp_args.start_color)
        /\ (lerp_args.factor = lerp_args.in_max =>
              ~lerp_out.panic /\ lerp_out.val = lerp_args.end_color)

(************************ claims on the Animation **************************)
\* C1: update() composites background, then foreground, then triggers: after
\* every update(), an LED written by the triggers holds the triggers' value, an
\* LED written by the foreground and not by the triggers holds the
\* foreground's, and an LED written by the background alone holds the
\* background's.
C1_LayerOrder ==
    anim_op.name = "update" =>
        \A i \in Leds :
            IF i \in frame.tr.leds THEN anim.segment[i + 1] = frame.tr.color
            ELSE IF i \in frame.fg.leds THEN anim.segment[i + 1] = frame.fg.color
            ELSE IF i \in frame.bg.leds THEN anim.segment[i + 1] = frame.bg.color
            ELSE TRUE

\* an update() in which all three layers wrote LED 0, and background and
\* foreground both wrote LED 1
C1_Witness ==
    /\ anim_op.name = "update"
    /\ 0 \in frame.bg.leds /\ 0 \in frame.fg.leds /\ 0 \in frame.tr.leds
    /\ 1 \in frame.bg.leds /\ 1 \in frame.fg.leds /\ 1 \notin frame.tr.leds
    /\ anim.segment[1] = GREEN
    /\ anim.segment[2] = BLUE

\* C7: trigger() with mode NoTrigger changes nothing; Background sets only
\* bg_state.has_been_triggered; Foreground sets only
\* fg_state.has_been_triggered; any other mode calls add_trigger exactly once
\* and leaves both flags; segment, translation table and offsets never change.
C7_TriggerDispatch ==
    [][anim_op'.name = "trigger" =>
         LET mode == anim_op'.mode
             params == [mode |-> mode, duration_ms |-> anim_op'.duration_ms]
         IN  /\ anim'.segment = anim.segment
             /\ anim'.translation_array = anim.translation_array
             /\ anim'.bg_state.offset = anim.bg_state.offset
             /\ anim'.fg_state.offset = anim.fg_state.offset
             /\ (mode = "NoTrigger" =>
                    anim' = anim /\ anim_op'.add_trigger_calls = 0)
             /\ (mode = "Background" =>
                    /\ anim' = [anim EXCEPT !.bg_state.has_been_triggered = TRUE]
                    /\ anim_op'.add_trigger_calls = 0)
             /\ (mode = "Foreground" =>
                    /\ anim' = [anim EXCEPT !.fg_state.has_been_triggered = TRUE]
                    /\ anim_op'.add_trigger_calls = 0)
             /\ (mode \notin {"NoTrigger", "Background", "Foreground"} =>
                    /\ anim_op'.add_trigger_calls = 1
                    /\ anim' = [anim EXCEPT !.triggers =
                                  add_trigger(@, params, anim_op'.frame_rate)])
    ]_vars

\* trigger() was called with mode Background while only the foreground flag
\* was set and a trigger instance was active
C7_Witness ==
    /\ anim_op.name = "trigger"
    /\ anim_op.mode = "Background"
    /\ anim.bg_state.has_been_triggered
    /\ ~anim.fg_state.has_been_triggered
    /\ Len(anim.triggers) = 1

\* C8: set_offset(Background, v) writes v to the background offset only,
\* set_offset(Foreground, v) writes v to the foreground offset only, and
\* set_offset(Trigger, v) leaves the Animation unchanged.
C8_SetOffsetRouting ==
    [][anim_op'.name = "set_offset" =>
         LET v == anim_op'.offset
         IN  /\ (anim_op'.a_type = "Background" =>
                    anim' = [anim EXCEPT !.bg_state.offset = v])
             /\ (anim_op'.a_type = "Foreground" =>
                    anim' = [anim EXCEPT !.fg_state.offset = v])
             /\ (anim_op'.a_type = "Trigger" => anim' = anim)
    ]_vars

\* set_offset(Trigger, MAX_OFFSET) was called and both offsets are still 0
C8_Witness ==
    /\ anim_op.name = "set_offset"
    /\ anim_op.a_type = "Trigger"
    /\ anim_op.offset = MAX_OFFSET
    /\ anim.bg_state.offset = 0
    /\ anim.fg_state.offset = 0

\* set_offset(Foreground, MAX_OFFSET) was called with the background at 0
C8_WitnessForeground ==
    /\ anim_op.name = "set_offset"
    /\ anim_op.a_type = "Foreground"
    /\ anim.fg_state.offset = MAX_OFFSET
    /\ anim.bg_state.offset = 0

(************************ claims on the generator **************************)
SameSeed(a, b) ==
    /\ runs[a].seeded
    /\ runs[b].seeded
    /\ runs[a].seed = runs[b].seed

Shorter(a, b) == IF Len(runs[a].outs) <= Len(runs[b].outs)
                 THEN Len(runs[a].outs) ELSE Len(runs[b].outs)

\* C9: two runs that called set_random_seed with the same seed and have since
\* only drawn offsets have drawn the same offsets, call for call, and after
\* the same number of draws hold the same RNG, whatever RNG held before the
\* reseed.
C9_SeedDeterminism ==
    \A a \in Runs : \A b \in Runs :
        SameSeed(a, b) =>
            /\ \A i \in 1..Shorter(a, b) : runs[a].outs[i] = runs[b].outs[i]
            /\ Len(runs[a].outs) = Len(runs[b].outs) => runs[a].RNG = runs[b].RNG

\* two runs reseeded alike over different states, MaxDraws draws later
C9_Witness ==
    /\ SameSeed(1, 2)
    /\ runs[1].before # runs[2].before
    /\ Len(runs[1].outs) = MaxDraws
    /\ Len(runs[2].outs) = MaxDraws

\* the counter k sequential draws after s: s + k * WY_CONST_0 (mod 2^32)
RECURSIVE counter_after(_, _)
counter_after(s, k) ==
    IF k = 0 THEN s
    ELSE as_u32(wrapping_add(widen(counter_after(s, k - 1)), WY_CONST_0))

\* the output of the k-th sequential draw after s
output_after(s, k) ==
    fold(LET n == wrapping_add(widen(counter_after(s, k - 1)), WY_CONST_0)
         IN  mul_u128(n, xor(n, WY_CONST_1)))

TotalDraws == Cardinality(Callers) * DrawsPerCaller

AllDone == \A c \in Callers : callers[c].pc = "done"

\* C10: in every interleaving of the two callers' loads and stores, each
\* output returned is the output of the k-th sequential draw for some k of 1
\* up to the number of draws made, every value RNG takes is the counter after
\* at most that many sequential draws, and the value left when both callers
\* have finished is the counter after at least one.
C10_RaceKeepsDrawsValid ==
    /\ \A c \in Callers : \A i \in 1..Len(callers[c].outs) :
        \E k \in 1..TotalDraws : callers[c].outs[i] = output_after(race_seed, k)
    /\ \A i \in 1..Len(RNG) :
        \E k \in 0..TotalDraws : RNG[i] = counter_after(race_seed, k)
    /\ AllDone =>
        \E k \in 1..TotalDraws : RNG[Len(RNG)] = counter_after(race_seed, k)

\* both callers finished and their first draws collided: the same output
\* twice, and the counter short of the number of draws made
C10_Witness ==
    /\ AllDone
    /\ callers[1].outs[1] = callers[2].outs[1]
    /\ \E k \in 1..(TotalDraws - 1) : RNG[Len(RNG)] = counter_after(race_seed, k)

(******************** claims on ReversibleRainbow **************************)
\* the index of the last call, when it is below 65536
SmallIndex == index_out.index[3] = 0 /\ index_out.index[4] = 0
IndexValue == index_out.index[1] + 256 * index_out.index[2]

\* C11: indexing a ReversibleRainbow of length len with i < len returns
\* rainbow[i] when Forward and rainbow[len-1-i] when Backward; with i >= len
\* it faults in both directions, with and without overflow checks, and never
\* returns a color.  The index the Progression-driven callers compute
\* (rainbow_index) gives the same result.
C11_ReversibleIndex ==
    index_out.called =>
        LET len == Len(rev_rainbow.backer)
        IN  /\ IF SmallIndex /\ IndexValue < len
               THEN /\ ~index_out.panic
                    /\ index_out.val =
                        IF rev_rainbow.rainbow_dir = "Forward"
                        THEN rev_rainbow.backer[IndexValue + 1]
                        ELSE rev_rainbow.backer[len - IndexValue]
               ELSE index_out.panic
            /\ SmallIndex =>
                LET r == rainbow_index(rev_rainbow, IndexValue)
                IN  /\ r.panic = index_out.panic
                    /\ ~r.panic => r.val = index_out.val

\* [A, B, C] Backward: index 0 is C
C11_Witness ==
    /\ index_out.called
    /\ rev_rainbow = [backer |-> <<ORANGE_A, DEEP_BLUE_A, CLEAR_A>>,
                      rainbow_dir |-> "Backward"]
    /\ index_out.index = to_u32(0)
    /\ index_out.val = CLEAR_A

\* an index past the end of a Backward rainbow, in a build without overflow
\* checks: the subtraction wraps and the slice access faults
C11_WitnessWrapped ==
    /\ index_out.called
    /\ ~overflow_checks
    /\ rev_rainbow.rainbow_dir = "Backward"
    /\ Len(rev_rainbow.backer) = MaxIndex
    /\ index_out.index = to_u32(MaxIndex)
    /\ index_out.panic

(******************** claims on the translation table **********************)
\* C12: Animation::new builds the identity translation table starting at 0
\* and a segment of zero colors, and no call of update(), set_offset() or
\* trigger() changes the table: translation_array()[i] = i for every LED i in
\* every reachable state, and right after new() every segment entry is the
\* zero color.
C12_TranslationIdentity ==
    /\ \A i \in 0..(N_LED - 1) : anim.translation_array[i + 1] = i
    /\ anim_op.name = "new" =>
        \A i \in 0..(N_LED - 1) : anim.segment[i + 1] = RGB8Default

\* after updates that painted the last LED, a trigger and a set_offset
C12_Witness ==
    /\ anim_op.name = "update"
    /\ anim.segment[N_LED] # RGB8Default
    /\ anim.fg_state.offset = MAX_OFFSET
    /\ anim.bg_state.offset = MAX_OFFSET
    /\ anim.translation_array[N_LED] = N_LED - 1

(******************** claims on StatefulRainbow ****************************)
\* the StatefulRainbow after one increment() / decrement()
AfterIncrement(sr) == [sr EXCEPT !.position = increment(sr.position).prog]
AfterDecrement(sr) == [sr EXCEPT !.position = decrement(sr.position).prog]

PeekMatchesAdvance(sr) ==
    /\ peek_next_color(sr) = current_color(AfterIncrement(sr))
    /\ peek_last_color(sr) = current_color(AfterDecrement(sr))

\* C13: for a StatefulRainbow with at least one color, in every reachable
\* state of its position, also after position.reverse_direction(),
\* peek_next_color() is the color current_color() returns after one
\* increment() and peek_last_color() the color it returns after one
\* decrement().
C13_PeekMatchesAdvance ==
    Len(fade_rainbow.backer.backer) >= 1 => PeekMatchesAdvance(fade_rainbow)

\* C13, for positions that run forward: the statement holds
C13_PeekMatchesAdvanceForward ==
    (Len(fade_rainbow.backer.backer) >= 1 /\ fade_rainbow.position.is_forward)
        => PeekMatchesAdvance(fade_rainbow)

(******************** claims on sequential draws ***************************)
\* (s + n * C0) mod 2^32, by one multiplication
counter_at(s, n) ==
    as_u32(wrapping_add(widen(s),
                        SubSeq(mul_u128(widen(to_u32(n)), WY_CONST_0), 1, 8)))

\* what the generator held when the run's count of draws started
Base(r) == IF runs[r].seeded THEN runs[r].seed ELSE RNG_INIT

\* C14: with a single caller, after n sequential draws from s the stored
\* state is (s + n * C0) mod 2^32, whatever the outputs were, and each
\* get_random_offset() is one draw returning the low 16 bits of the output
\* computed from the state that draw stored.
C14_CounterAdvance ==
    \A r \in Runs :
        /\ runs[r].RNG = counter_at(Base(r), Len(runs[r].outs))
        /\ \A i \in 1..Len(runs[r].outs) :
            runs[r].outs[i] =
                as_u16(output(wrapping_add(widen(counter_at(Base(r), i - 1)),
                                           WY_CONST_0)))

\* MaxDraws draws from the seed 2^32 - 1, the first of which wraps the counter
C14_Witness ==
    /\ runs[1].seeded
    /\ runs[1].seed = U32(255, 255, 255, 255)
    /\ Len(runs[1].outs) = MaxDraws
    /\ runs[1].RNG # runs[1].seed

(************************ claims on shift_offset ***************************)
\* floor(65535 * x / total) without a product above 2^31: 65535 = 255 * 257
FullRangeShare(x, total) ==
    257 * ((255 * x) \div total) + (257 * ((255 * x) % total)) \div total

\* the delta of the reference, for the frames and direction of the last call
ReferenceDelta ==
    LET fr == shift_out.frames
    IN  CASE shift_out.direction = "Stopped" -> 0
          [] shift_out.direction = "Positive" ->
                FullRangeShare(get_current(fr).val, fr.total)
          [] shift_out.direction = "Negative" ->
                FullRangeShare(fr.total - get_current(fr).val, fr.total)

ShiftMatchesReference ==
    /\ ~shift_out.panic
    /\ shift_out.val =
        IF shift_out.frames.total = 0 THEN shift_out.start
        ELSE (shift_out.start + ReferenceDelta) % 65536

\* C15: shift_offset(start, frames, direction) is start when frames.total is
\* 0 and otherwise (start + delta) mod 65536, with delta 0 for Stopped,
\* floor(65535 * get_current / total) for Positive and
\* floor(65535 * (total - get_current) / total) for Negative, for every start
\* and every reachable frames.
C15_ShiftOffsetReference == shift_out.called => ShiftMatchesReference

\* the number of frames the last call scaled: elapsed or remaining
ScaledFrames ==
    LET fr == shift_out.frames
    IN  CASE shift_out.direction = "Stopped" -> 0
          [] shift_out.direction = "Positive" -> get_current(fr).val
          [] shift_out.direction = "Negative" -> fr.total - get_current(fr).val

\* C15, for calls whose product 65535 * frames fits a 32-bit usize (at most
\* 65537 frames elapsed or remaining): the statement holds
C15_ShiftOffsetReferenceProductFits ==
    (shift_out.called /\ ScaledFrames <= MAX_OFFSET + 2)
        => ShiftMatchesReference

InRange(r, total) == ~r.panic /\ r.val \in 0..(total - 1)

C18_FrameEffects ==
    /\ last_op = "reverse_direction" =>
        prog = [prev EXCEPT !.is_forward = ~prev.is_forward]
    /\ last_op = "reset" =>
        /\ prog = [prev EXCEPT !.current = 0]
        /\ (prog.total >= 2 /\ ~prog.is_forward) =>
            /\ is_first_frame(prog)
            /\ get_current(prog) = Ok(prog.total - 1)

\* reset() of a reversed Progression that was not at raw 0
C18_Witness ==
    /\ last_op = "reset"
    /\ prog.total = MaxTotal
    /\ ~prog.is_forward
    /\ prev.current # 0
    /\ prog.current = 0

(************************ claims on TimedRainbows **************************)
\* one step of a rainbow cursor, modulo the length of the rainbow
OneStep(position) ==
    IF position.total = 0 THEN position.current
    ELSE (position.current + 1) % position.total

\* C19: advance_rainbow_color() on a TimedRainbows advances the position of
\* the march rainbow by one step modulo its length and sets the stored
\* counter of frames to 0; the fade rainbow, both rainbows' directions and
\* colors, and total and is_forward of frames and of the march position stay
\* as they were.  increment, decrement and reset of a StatefulRainbow leave
\* frames as it was.
C19_AdvanceFrameEffect ==
    [][ /\ timed_op' = "advance_rainbow_color" =>
            /\ incremental_rainbow' =
                [incremental_rainbow EXCEPT
                    !.position.current = OneStep(incremental_rainbow.position)]
            /\ frames' = [frames EXCEPT !.current = 0]
            /\ fade_rainbow' = fade_rainbow
        /\ timed_op' \in StatefulOps => frames' = frames
      ]_vars

\* after an advance that wrapped the march rainbow while the fade rainbow
\* stood elsewhere, frames having counted
C19_Witness ==
    /\ timed_op = "advance_rainbow_color"
    /\ Len(incremental_rainbow.backer.backer) = 3
    /\ incremental_rainbow.position.current = 0
    /\ fade_rainbow.position.current = 1
    /\ frames.total = MaxFrames
    /\ frames.current = 0

\* the indexes the three color queries of sr hand to the ReversibleRainbow
ColorIndexes(sr) ==
    {get_current(sr.position), peek_next(sr.position), peek_prev(sr.position)}

ColorQueries(sr) ==
    {current_color(sr), peek_next_color(sr), peek_last_color(sr)}

NeverOutOfRange(sr) ==
    LET L == Len(sr.backer.backer)
    IN  IF L >= 1
        THEN /\ sr.position.total = L
             /\ \A i \in ColorIndexes(sr) : ~i.panic /\ i.val < L
             /\ \A c \in ColorQueries(sr) :
                    ~c.panic /\ \E k \in 1..L : c.val = sr.backer.backer[k]
        ELSE \A c \in ColorQueries(sr) : c.panic

\* C20: for a StatefulRainbow made by new() over L >= 1 colors (L = 1
\* included), in either rainbow direction, after any sequence of increment,
\* decrement and reset, position.total is L and every index current_color(),
\* peek_next_color() and peek_last_color() use is below L, so none of them
\* faults; over L = 0 colors each of the three faults and returns no color.
C20_NoOutOfRange ==
    /\ NeverOutOfRange(fade_rainbow)
    /\ NeverOutOfRange(incremental_rainbow)

\* a Backward rainbow of one color after a decrement, beside a Backward
\* rainbow of three colors stepped back from its first
C20_Witness ==
    /\ timed_op = "decrement"
    /\ fade_rainbow.backer.rainbow_dir = "Backward"
    /\ Len(fade_rainbow.backer.backer) = 1
    /\ incremental_rainbow.backer.rainbow_dir = "Backward"
    /\ Len(incremental_rainbow.backer.backer) = 3
    /\ incremental_rainbow.position.current = 2

\* an empty rainbow after an increment: its color queries fault
C20_WitnessEmpty ==
    /\ timed_op = "increment"
    /\ Len(fade_rainbow.backer.backer) = 0
    /\ current_color(fade_rainbow).panic
    /\ Len(incremental_rainbow.backer.backer) = 3
    /\ incremental_rainbow.position.current = 1

=============================================================================
